---- MODULE Spec2Model ----
(***************************************************************************)
(* The connection-handling core of the dispatch job-queue broker           *)
(* (src/main.go): the acceptor loop of main, one handleConn goroutine per  *)
(* connection driving connData/doCmd, and the process-wide counters        *)
(* opCount, curConnCount and globalStat.totalJobsCount that every          *)
(* goroutine updates without synchronisation.                              *)
(*                                                                         *)
(* Byte slices and Go strings are TLA+ strings, a byte being one character. *)
(* Every step of a goroutine is one blocking I/O call or one access to a   *)
(* shared variable together with the goroutine-local code around it, so an *)
(* increment x++ of a shared counter is a load step and a store step.      *)
(***************************************************************************)
EXTENDS Integers, Sequences, FiniteSets, TLC

(***************************************************************************)
(* Bounds of the model.                                                    *)
(***************************************************************************)
\* Number of clients that connect.
MaxConns == 2

Conns == 1..MaxConns

(***************************************************************************)
(* Constants of src/main.go.                                               *)
(***************************************************************************)
CR == "\r"
LF == "\n"
CRLF == "\r\n"
SP == " "

msgInsertedFmt == "INSERTED "
msgBadFmt == "BAD_FORMAT\r\n"
msgUnknownCommand == "UNKNOWN_COMMAND\r\n"
msgExpectedCRLF == "EXPECTED_CRLF\r\n"

cmdUse == "use "
cmdPut == "put "
cmdStats == "stats"
cmdQuit == "quit"

\* The text of statsFmt before each of its nine %d verbs.
statsFmt ==
  << "---\ncurrent-jobs-urgent: ",
     "\ncurrent-jobs-ready: ",
     "\ncurrent-jobs-reserved: ",
     "\ncurrent-jobs-delayed: ",
     "\ncurrent-jobs-buried: ",
     "\ncmd-put: ",
     "\ncmd-use: ",
     "\ncmd-stats: ",
     "\ncurrent-connections: " >>

cmdUseLen == Len(cmdUse)

opPut == "opPut"
opStats == "opStats"
opUse == "opUse"
opQuit == "opQuit"
opUnknown == "opUnknown"

connStateWantCommand == "WantCommand"
connStateSendWord == "SendWord"
connStateSendJob == "SendJob"
connStateClose == "Close"

\* The raw floor doCmd applies to the parsed time-to-run.
ttrFloor == 1000000000

\* The nil *job.
nil == [nil |-> TRUE]

(***************************************************************************)
(* Library functions, as the Go standard library computes them.            *)
(***************************************************************************)
HasPrefix(s, p) == Len(s) >= Len(p) /\ SubSeq(s, 1, Len(p)) = p

HasSuffix(s, p) == Len(s) >= Len(p) /\ SubSeq(s, Len(s) - Len(p) + 1, Len(s)) = p

\* The i-th byte of s, as a string of length one.
At(s, i) == SubSeq(s, i, i)

\* The white space bytes.Fields splits around (unicode.IsSpace on ASCII).
asciiSpace == {SP, "\t", LF, CR, "\f"}

RECURSIVE FieldsFrom(_, _, _, _)
FieldsFrom(s, i, cur, acc) ==
  IF i > Len(s)
    THEN (IF cur = "" THEN acc ELSE Append(acc, cur))
    ELSE IF At(s, i) \in asciiSpace
      THEN FieldsFrom(s, i + 1, "", IF cur = "" THEN acc ELSE Append(acc, cur))
      ELSE FieldsFrom(s, i + 1, cur \o At(s, i), acc)

\* bytes.Fields: the maximal runs of non-space bytes of s.
Fields(s) == FieldsFrom(s, 1, "", <<>>)

Digits == <<"0", "1", "2", "3", "4", "5", "6", "7", "8", "9">>

IsDigit(ch) == \E d \in 1..10 : Digits[d] = ch

DigitVal(ch) == (CHOOSE d \in 1..10 : Digits[d] = ch) - 1

RECURSIVE StripZeros(_)
StripZeros(s) ==
  IF Len(s) > 1 /\ At(s, 1) = "0" THEN StripZeros(SubSeq(s, 2, Len(s))) ELSE s

\* The decimal digits of 1<<32 - 1, the largest value ParseUint(s, 10, 32) accepts.
maxUint32Digits == "4294967295"

RECURSIVE DigitsLE(_, _, _)
\* a <= b for digit strings of one length, compared from position i on.
DigitsLE(a, b, i) ==
  IF i > Len(a) THEN TRUE
  ELSE IF At(a, i) # At(b, i)
    THEN DigitVal(At(a, i)) < DigitVal(At(b, i))
    ELSE DigitsLE(a, b, i + 1)

\* strconv.ParseUint(s, 10, 32) returns a nil error: s is a non-empty string
\* of decimal digits (no sign, no underscore) whose value fits 32 bits.
ParseUintOK(s) ==
  /\ s # ""
  /\ \A i \in 1..Len(s) : IsDigit(At(s, i))
  /\ LET t == StripZeros(s)
     IN  Len(t) < 10 \/ (Len(t) = 10 /\ DigitsLE(t, maxUint32Digits, 1))

RECURSIVE ParseUintFrom(_, _, _)
ParseUintFrom(s, i, n) ==
  IF i > Len(s) THEN n ELSE ParseUintFrom(s, i + 1, n * 10 + DigitVal(At(s, i)))

\* The value strconv.ParseUint returns for a string it accepts.
ParseUintVal(s) == ParseUintFrom(s, 1, 0)

RECURSIVE FmtD(_)
\* fmt's %d verb.
FmtD(n) ==
  IF n < 0 THEN "-" \o FmtD(0 - n)
  ELSE IF n < 10 THEN Digits[n + 1]
  ELSE FmtD(n \div 10) \o Digits[(n % 10) + 1]

(***************************************************************************)
(* Pure functions of src/main.go.                                          *)
(***************************************************************************)
whichCmd(cmd) ==
  IF HasPrefix(cmd, cmdPut) THEN opPut
  ELSE IF HasPrefix(cmd, cmdStats) THEN opStats
  ELSE IF HasPrefix(cmd, cmdUse) THEN opUse
  ELSE IF HasPrefix(cmd, cmdQuit) THEN opQuit
  ELSE opUnknown

\* The number of fields doCmd requires of a put line: the keyword and four numbers.
putFieldCount == 5

\* PutParses with the field count tested as "at least five".
PutParsesAtLeast(cmd) ==
  LET fields == Fields(cmd)
  IN  /\ Len(fields) >= putFieldCount
      /\ \A i \in 2..5 : ParseUintOK(fields[i])

\* doCmd's put case reaches opCount[msgType]++: five fields, the last four
\* accepted by ParseUint.
PutParses(cmd) ==
  LET fields == Fields(cmd)
  IN  /\ Len(fields) = putFieldCount
      /\ \A i \in 2..5 : ParseUintOK(fields[i])

\* The i-th field of a put line that parses (2: pri, 3: delay, 4: ttr, 5: bodySize).
PutField(cmd, i) == ParseUintVal(Fields(cmd)[i])

\* doCmd's floor of the parsed time-to-run.
FloorTtr(ttr) == IF ttr < ttrFloor THEN ttrFloor ELSE ttr

\* Stands for the zero byte a freshly made slice holds.
NUL == "@"

RECURSIVE Zeros(_)
\* make([]byte, n)
Zeros(n) == IF n = 0 THEN "" ELSE NUL \o Zeros(n - 1)

makeJob(pri, delay, ttr, bodySize) ==
  [pri |-> pri, delay |-> delay, ttr |-> ttr, bodySize |-> bodySize,
   body |-> Zeros(bodySize)]

\* The job doCmd makes for a put line that parses.
PutJob(cmd) ==
  makeJob(PutField(cmd, 2), PutField(cmd, 3), FloorTtr(PutField(cmd, 4)),
          PutField(cmd, 5) + 2)

\* fmt.Sprintf(msgInsertedFmt, id)
FmtInserted(id) == msgInsertedFmt \o FmtD(id) \o CRLF

\* The name doCmd's use case takes from the command line.
UseName(cmd) == SubSeq(cmd, cmdUseLen + 1, Len(cmd))

\* fmt.Sprintf("USING %s\r\n", name)
FmtUsing(name) == "USING " \o name \o CRLF

RECURSIVE SprintfFrom(_, _)
SprintfFrom(a, i) ==
  IF i > Len(statsFmt) THEN LF
  ELSE statsFmt[i] \o FmtD(a[i]) \o SprintfFrom(a, i + 1)

\* fmt.Sprintf(statsFmt, a...) for the nine values fmtStats passes.
SprintfStats(a) == SprintfFrom(a, 1)

\* doStats: fmt.Sprintf("OK %s\r\n", res)
FmtOK(res) == "OK " \o res \o CRLF

(***************************************************************************)
(* The clients.  A script is what one client sends, as the chunks in which *)
(* its bytes reach the server's socket.                                    *)
(***************************************************************************)
Scripts ==
  << << "stats\r\n" >>,
     << "use a\r\n" >>,
     << "put 1 0 5 1\r\nh\r\n" >>,
     << "put 1 0 5 1\r\nh\r\n", "use a\r\n" >>,
     << "put 1 0 5 1\r\n", "h\r\n" >>,
     << "put 1 0 5 1\r\nh", "\r\nx\r\n" >>,
     << "put 1 0 0 1\r\nhXY", "stats\r\n" >>,
     << "put a 0 5 1\r\nuse a\r\n" >>,
     << "put 1 0 5\r\nquit\r\n" >>,
     << "put 1 0 5 1 9\r\nbogus\r\n" >>,
     << "stats\r\n", "stats\r\n" >>,
     << "use a\r\n", "use b\r\n" >>,
     << "quit\r\n" >>,
     << "statsX\r\n", "quitter\r\n" >>,
     << "put\r\n", "use a" >> >>

\* The scripts clients play when several connect: one command each, so that the
\* interleavings of several handlers stay within reach.
SharedScripts == {1, 2, 3}

\* Two clients of which one sends a second command while the other is still
\* inside its first: stats once, and stats twice.
PairCast == [c \in Conns |-> IF c = 1 THEN 1 ELSE IF c = 2 THEN 11 ELSE 0]

\* The clients that connect, and what each plays (0: the client never connects):
\* one client playing any script, or several playing the one-command scripts,
\* or the pair above.  Clients are interchangeable (Accept takes them in any
\* order), so of the casts that differ only by a permutation of the clients
\* one is kept.
Casts ==
  {f \in [Conns -> 0..Len(Scripts)] :
     \/ f = PairCast
     \/ \E n \in Conns :
          /\ \A c \in Conns : (f[c] # 0) <=> (c <= n)
          /\ n > 1 => \A c \in 1..n : f[c] \in SharedScripts
          /\ \A c \in 1..(n - 1) : f[c] <= f[c + 1]}

RECURSIVE Flatten(_)
Flatten(chunks) ==
  IF chunks = <<>> THEN "" ELSE Head(chunks) \o Flatten(Tail(chunks))

\* Every byte of each script, in order.
Inputs == [s \in 1..Len(Scripts) |-> Flatten(Scripts[s])]

Input(s) == Inputs[s]

\* The number of bytes in the first k chunks of each script.
ChunkEnds ==
  [s \in 1..Len(Scripts) |->
     [k \in 0..Len(Scripts[s]) |-> Len(Flatten(SubSeq(Scripts[s], 1, k)))]]

SentBytes(s, k) == ChunkEnds[s][k]

(***************************************************************************)
(* State.                                                                  *)
(***************************************************************************)
VARIABLES
  opCount,         \* var opCount: the per-command counters (a missing key reads 0)
  curConnCount,    \* var curConnCount
  totalJobsCount,  \* globalStat.totalJobsCount
  crashed,         \* the runtime has ended the process (fatal: concurrent map access)
  accPc,           \* where the acceptor loop of main is
  accTmp,          \* the value makeConn has loaded for curConnCount++
  accConn,         \* the client whose connection Accept has returned (0: none)
  pc,              \* where each connection's handleConn goroutine is
  state,           \* conn.state
  cmd,             \* conn.cmd
  reply,           \* conn.reply
  inJob,           \* conn.inJob
  nbRead,          \* doCmd's local nbRead
  tmp,             \* the value a goroutine has loaded for a pending x++ or x = x - 1
  args,            \* the arguments fmtStats has evaluated so far
  script,          \* which script each client plays
  nsent,           \* how many chunks of its script each client has sent
  peerClosed,      \* the client has closed its end
  pulled,          \* bytes conn.reader has read from the socket so far
  pos,             \* bytes conn.reader has handed to the handler so far
  out,             \* the replies written to the socket, in order
  sockClosed,      \* how many times conn.conn.Close() has been called
  nCmd,            \* history: command lines read and handed to doCmd
  cmdEnd,          \* history: stream position just after the last command line
  nDec,            \* history: executions of connClose's decrement
  incDone,         \* history: completed executions of opCount[op]++, per op
  snap             \* history: the counter values held while a stats command is
                   \* handled, for the connections it is kept for

sharedVars == <<opCount, curConnCount, totalJobsCount, crashed, incDone>>
accVars == <<accPc, accTmp, accConn>>
clientVars == <<script, nsent, peerClosed>>
connVars == <<pc, state, cmd, reply, inJob, nbRead, tmp, args, pulled, pos, out,
              sockClosed, nCmd, cmdEnd, nDec, snap>>
vars == <<sharedVars, accVars, clientVars, connVars>>

CountedOps == {opPut, opStats, opUse}

\* The state after the listener is set up, the history snap being kept for
\* the connections in O.
InitWith(O) ==
  /\ opCount = [op \in CountedOps |-> 0]
  /\ curConnCount = 0
  /\ totalJobsCount = 0
  /\ crashed = FALSE
  /\ accPc = "accept"
  /\ accTmp = 0
  /\ accConn = 0
  /\ pc = [c \in Conns |-> "idle"]
  /\ state = [c \in Conns |-> connStateWantCommand]
  /\ cmd = [c \in Conns |-> ""]
  /\ reply = [c \in Conns |-> ""]
  /\ inJob = [c \in Conns |-> nil]
  /\ nbRead = [c \in Conns |-> 0]
  /\ tmp = [c \in Conns |-> 0]
  /\ args = [c \in Conns |-> <<>>]
  /\ script \in Casts
  /\ nsent = [c \in Conns |-> 0]
  /\ peerClosed = [c \in Conns |-> FALSE]
  /\ pulled = [c \in Conns |-> 0]
  /\ pos = [c \in Conns |-> 0]
  /\ out = [c \in Conns |-> <<>>]
  /\ sockClosed = [c \in Conns |-> 0]
  /\ nCmd = [c \in Conns |-> 0]
  /\ cmdEnd = [c \in Conns |-> 0]
  /\ nDec = [c \in Conns |-> 0]
  /\ incDone = [op \in CountedOps |-> 0]
  /\ snap = [c \in O |-> {}]

Init == InitWith({})

(***************************************************************************)
(* The socket and conn.reader (a bufio.Reader) of connection c.            *)
(***************************************************************************)
\* The bytes conn.reader holds: read from the socket, not yet handed out.
Buffered(c) == SubSeq(Input(script[c]), pos[c] + 1, pulled[c])

\* The bytes the client has sent so far.
Arrived(c) == SentBytes(script[c], nsent[c])

\* The positions of the LF bytes in each script's stream.
LFs ==
  [s \in 1..Len(Scripts) |-> {i \in 1..Len(Inputs[s]) : At(Inputs[s], i) = LF}]

\* The stream of c holds a LF after what the handler has consumed and within
\* its first upTo bytes.
HasLF(c, upTo) == \E p \in LFs[script[c]] : pos[c] < p /\ p <= upTo

\* The position of the first LF after what the handler has consumed: where
\* the line ReadBytes('\n') returns ends.
LineEnd(c) ==
  CHOOSE p \in LFs[script[c]] :
    pos[c] < p /\ \A q \in LFs[script[c]] : pos[c] < q => p <= q

Min(a, b) == IF a < b THEN a ELSE b

\* How many bytes bufio.Reader.Read copies into a slice of length want: from
\* its buffer if that holds any byte, and otherwise from one read of the socket.
ReadCount(want, buffered, onSocket) ==
  Min(want, IF buffered > 0 THEN buffered ELSE onSocket)

(***************************************************************************)
(* History of the counters a stats report shows, kept for each connection  *)
(* from the moment its stats line is handed to doCmd: the values the       *)
(* counters have held since then that agree with what fmtStats has read.   *)
(***************************************************************************)
\* The counters a report shows, in the order fmtStats reads them.
Counters(oc, cc) == <<oc[opPut], oc[opUse], oc[opStats], cc>>

\* The handler of c is inside doCmd's stats case.
InStats(c) ==
  \/ pc[c] \in {"argPut", "argUse", "argStats", "argConns"}
  \/ pc[c] = "opStore" /\ whichCmd(cmd[c]) = opStats

\* How many of the four counters fmtStats has read on c.
NRead(c) == IF pc[c] = "opStore" THEN 0 ELSE Len(args[c]) - 5

\* The values t agree with what fmtStats has read on c.
Agrees(t, c) == \A k \in 1..NRead(c) : t[k] = args[c][5 + k]

\* The history after a step that leaves the counters at the values t.
Observe(t) ==
  [d \in DOMAIN snap |->
     IF InStats(d) /\ Agrees(t, d) THEN snap[d] \cup {t} ELSE snap[d]]

(***************************************************************************)
(* The acceptor: the loop of main.                                         *)
(***************************************************************************)
Idle == {c \in Conns : pc[c] = "idle" /\ script[c] # 0}

\* l.Accept() returns the connection of a client; makeConn loads curConnCount.
Accept ==
  /\ ~crashed
  /\ accPc = "accept"
  /\ \E c \in Idle : accConn' = c
  /\ accTmp' = curConnCount
  /\ accPc' = "makeConn"
  /\ UNCHANGED <<sharedVars, clientVars, connVars>>

\* makeConn stores curConnCount and builds the conn; main starts handleConn.
MakeConn ==
  /\ ~crashed
  /\ accPc = "makeConn"
  /\ curConnCount' = accTmp + 1
  /\ accTmp' = 0
  /\ accConn' = 0
  /\ accPc' = "accept"
  /\ pc' = [pc EXCEPT ![accConn] = "connData"]
  /\ state' = [state EXCEPT ![accConn] = connStateWantCommand]
  /\ snap' = Observe(Counters(opCount, accTmp + 1))
  /\ UNCHANGED <<opCount, totalJobsCount, crashed, incDone, clientVars, cmd, reply,
                 inJob, nbRead, tmp, args, pulled, pos, out, sockClosed, nCmd,
                 cmdEnd, nDec>>

(***************************************************************************)
(* The clients.                                                            *)
(***************************************************************************)
\* The connection of client c is open at the server.
Live(c) == pc[c] \notin {"idle", "done"}

\* The next chunk of the client's script reaches the server's socket.
ClientSend(c) ==
  /\ ~crashed
  /\ Live(c)
  /\ ~peerClosed[c]
  /\ nsent[c] < Len(Scripts[script[c]])
  /\ nsent' = [nsent EXCEPT ![c] = @ + 1]
  /\ UNCHANGED <<sharedVars, accVars, script, peerClosed, connVars>>

\* The client closes its end after its last chunk.
ClientClose(c) ==
  /\ ~crashed
  /\ Live(c)
  /\ ~peerClosed[c]
  /\ nsent[c] = Len(Scripts[script[c]])
  /\ peerClosed' = [peerClosed EXCEPT ![c] = TRUE]
  /\ UNCHANGED <<sharedVars, accVars, script, nsent, connVars>>

(***************************************************************************)
(* The connection handlers: handleConn, connData, doCmd.                   *)
(***************************************************************************)
\* reply: the pending reply and the state it leaves the connection in.
Reply(msg, st) == [reply |-> msg, state |-> st]

\* replyMsg leaving the connection in WantCommand.
replyMsgNoSend(msg) == Reply(msg, connStateWantCommand)

replyMsg(msg) == Reply(msg, connStateSendWord)

\* replyLine dropping the formatted text.
replyLineNoText(st, text) == Reply("", st)

replyLine(st, text) == Reply(text, st)

\* resetConn closing the connection after a write.
resetConnClose == connStateClose

\* resetConn: the state a connection returns to after a write.
resetConn == connStateWantCommand

\* The quit case asking for a write instead of closing.
quitStateSend == connStateSendWord

\* The state doCmd's quit case sets.
quitState == connStateClose

\* handleConn going round its loop again after connClose.
afterCloseLoop == "connData"

\* Where handleConn goes after connClose: it returns.
afterClose == "done"

\* connData keeping the connection open when a read or a write fails.
ioErrStateOpen == connStateWantCommand

\* The state connData sets when ReadBytes or Write returns an error.
ioErrState == connStateClose

\* connData in WantCommand: ReadBytes fails (end of stream before a LF); the
\* bytes of the unfinished line are consumed.
ReadErr(c) ==
  /\ ~crashed
  /\ pc[c] = "connData"
  /\ state[c] = connStateWantCommand
  /\ ~HasLF(c, Arrived(c))
  /\ peerClosed[c]
  /\ state' = [state EXCEPT ![c] = ioErrState]
  /\ pulled' = [pulled EXCEPT ![c] = Arrived(c)]
  /\ pos' = [pos EXCEPT ![c] = Arrived(c)]
  /\ UNCHANGED <<sharedVars, accVars, clientVars, pc, cmd, reply, inJob, nbRead,
                 tmp, args, out, sockClosed, nCmd, cmdEnd, nDec, snap>>

\* connData in WantCommand: ReadBytes returns a line (it blocks until its
\* buffer holds a LF, reading what has arrived on the socket when the buffer
\* holds none) and doCmd runs up to its first access to a shared counter, or
\* to its return when it makes none.
ReadCmd(c) ==
  /\ ~crashed
  /\ pc[c] = "connData"
  /\ state[c] = connStateWantCommand
  /\ HasLF(c, Arrived(c))
  /\ LET line == SubSeq(Input(script[c]), pos[c] + 1, LineEnd(c))
         msgType == whichCmd(line)
     IN  /\ cmd' = [cmd EXCEPT ![c] = line]
         /\ pulled' = [pulled EXCEPT ![c] = IF HasLF(c, pulled[c]) THEN @ ELSE Arrived(c)]
         /\ pos' = [pos EXCEPT ![c] = @ + Len(line)]
         /\ cmdEnd' = [cmdEnd EXCEPT ![c] = pos[c] + Len(line)]
         /\ nCmd' = [nCmd EXCEPT ![c] = @ + 1]
         /\ snap' = [d \in DOMAIN snap |->
                       IF d = c /\ msgType = opStats
                         THEN {Counters(opCount, curConnCount)}
                         ELSE snap[d]]
         /\ IF msgType = opPut /\ ~PutParses(line)
              THEN /\ reply' = [reply EXCEPT ![c] = replyMsg(msgBadFmt).reply]
                   /\ state' = [state EXCEPT ![c] = replyMsg(msgBadFmt).state]
                   /\ UNCHANGED <<pc, tmp>>
            ELSE IF msgType \in CountedOps
              THEN /\ tmp' = [tmp EXCEPT ![c] = opCount[msgType]]
                   /\ pc' = [pc EXCEPT ![c] = "opStore"]
                   /\ UNCHANGED <<reply, state>>
            ELSE IF msgType = opQuit
              THEN /\ state' = [state EXCEPT ![c] = quitState]
                   /\ UNCHANGED <<pc, tmp, reply>>
              ELSE /\ reply' = [reply EXCEPT ![c] = replyMsg(msgUnknownCommand).reply]
                   /\ state' = [state EXCEPT ![c] = replyMsg(msgUnknownCommand).state]
                   /\ UNCHANGED <<pc, tmp>>
  /\ UNCHANGED <<sharedVars, accVars, clientVars, inJob, nbRead, args, out,
                 sockClosed, nDec>>

\* The five values fmtStats evaluates before the counters: no code writes them.
jobStats == <<0, 0, 0, 0, 0>>

\* doCmd: the store of opCount[msgType]++, then the command's own code up to
\* its next shared access or blocking call.
OpStore(c) ==
  /\ ~crashed
  /\ pc[c] = "opStore"
  /\ LET msgType == whichCmd(cmd[c])
     IN  /\ opCount' = [opCount EXCEPT ![msgType] = tmp[c] + 1]
         /\ snap' = Observe(Counters([opCount EXCEPT ![msgType] = tmp[c] + 1],
                                     curConnCount))
         /\ incDone' = [incDone EXCEPT ![msgType] = @ + 1]
         /\ tmp' = [tmp EXCEPT ![c] = 0]
         /\ IF msgType = opPut
              THEN /\ inJob' = [inJob EXCEPT ![c] = PutJob(cmd[c])]
                   /\ pc' = [pc EXCEPT ![c] = "readBody"]
                   /\ UNCHANGED <<args, reply, state>>
            ELSE IF msgType = opStats
              THEN /\ args' = [args EXCEPT ![c] = jobStats]
                   /\ pc' = [pc EXCEPT ![c] = "argPut"]
                   /\ UNCHANGED <<inJob, reply, state>>
              ELSE /\ reply' = [reply EXCEPT ![c] =
                                  replyLine(connStateSendWord, FmtUsing(UseName(cmd[c]))).reply]
                   /\ state' = [state EXCEPT ![c] =
                                  replyLine(connStateSendWord, FmtUsing(UseName(cmd[c]))).state]
                   /\ pc' = [pc EXCEPT ![c] = "connData"]
                   /\ UNCHANGED <<inJob, args>>
  /\ UNCHANGED <<curConnCount, totalJobsCount, crashed, accVars, clientVars, cmd,
                 nbRead, pulled, pos, out, sockClosed, nCmd, cmdEnd, nDec>>

\* The body slice after Read has copied n bytes of the stream into it.
FilledBody(c, n) ==
  SubSeq(Input(script[c]), pos[c] + 1, pos[c] + n)
    \o SubSeq(inJob[c].body, n + 1, Len(inJob[c].body))

\* doCmd's put case: c.reader.Read(c.inJob.body), the length test, and
\* enqueueIncomingJob up to its load of globalStat.totalJobsCount.
ReadBody(c) ==
  /\ ~crashed
  /\ pc[c] = "readBody"
  /\ pulled[c] > pos[c] \/ Arrived(c) > pulled[c] \/ peerClosed[c]
  /\ LET want == Len(inJob[c].body)
         n == ReadCount(want, pulled[c] - pos[c], Arrived(c) - pulled[c])
         body == FilledBody(c, n)
     IN  /\ pulled' = [pulled EXCEPT ![c] = IF pulled[c] > pos[c] THEN @ ELSE Arrived(c)]
         /\ pos' = [pos EXCEPT ![c] = @ + n]
         /\ nbRead' = [nbRead EXCEPT ![c] = n]
         /\ IF n # want
              THEN /\ inJob' = [inJob EXCEPT ![c].body = body]
                   /\ reply' = [reply EXCEPT ![c] = replyMsg(msgBadFmt).reply]
                   /\ state' = [state EXCEPT ![c] = replyMsg(msgBadFmt).state]
                   /\ pc' = [pc EXCEPT ![c] = "connData"]
                   /\ UNCHANGED tmp
            ELSE IF ~HasSuffix(body, CRLF)
              THEN /\ inJob' = [inJob EXCEPT ![c] = nil]
                   /\ reply' = [reply EXCEPT ![c] = replyMsg(msgExpectedCRLF).reply]
                   /\ state' = [state EXCEPT ![c] = replyMsg(msgExpectedCRLF).state]
                   /\ pc' = [pc EXCEPT ![c] = "connData"]
                   /\ UNCHANGED tmp
              ELSE /\ inJob' = [inJob EXCEPT ![c] = nil]
                   /\ tmp' = [tmp EXCEPT ![c] = totalJobsCount]
                   /\ pc' = [pc EXCEPT ![c] = "jobStore"]
                   /\ UNCHANGED <<reply, state>>
  /\ UNCHANGED <<sharedVars, accVars, clientVars, cmd, args, out, sockClosed, nCmd,
                 cmdEnd, nDec, snap>>

\* The placeholder id enqueueIncomingJob reports.
jobId == 1

\* enqueueIncomingJob: the store of globalStat.totalJobsCount++ and the reply.
JobStore(c) ==
  /\ ~crashed
  /\ pc[c] = "jobStore"
  /\ totalJobsCount' = tmp[c] + 1
  /\ tmp' = [tmp EXCEPT ![c] = 0]
  /\ reply' = [reply EXCEPT ![c] = replyLine(connStateSendWord, FmtInserted(jobId)).reply]
  /\ state' = [state EXCEPT ![c] = replyLine(connStateSendWord, FmtInserted(jobId)).state]
  /\ pc' = [pc EXCEPT ![c] = "connData"]
  /\ UNCHANGED <<opCount, curConnCount, crashed, incDone, accVars, clientVars, cmd,
                 inJob, nbRead, args, pulled, pos, out, sockClosed, nCmd, cmdEnd, nDec, snap>>

\* The counter fmtStats reads at each of its three reads of opCount, and the
\* place it goes to next.
ArgOp(p) == IF p = "argPut" THEN opPut ELSE IF p = "argUse" THEN opUse ELSE opStats

ArgNext(p) ==
  IF p = "argPut" THEN "argUse" ELSE IF p = "argUse" THEN "argStats" ELSE "argConns"

\* fmtStats evaluates opCount[opPut], opCount[opUse] or opCount[opStats].
ArgRead(c) ==
  /\ ~crashed
  /\ pc[c] \in {"argPut", "argUse", "argStats"}
  /\ args' = [args EXCEPT ![c] = Append(@, opCount[ArgOp(pc[c])])]
  /\ snap' = [d \in DOMAIN snap |->
                IF d = c THEN {t \in snap[d] : t[NRead(c) + 1] = opCount[ArgOp(pc[c])]}
                         ELSE snap[d]]
  /\ pc' = [pc EXCEPT ![c] = ArgNext(pc[c])]
  /\ UNCHANGED <<sharedVars, accVars, clientVars, state, cmd, reply, inJob, nbRead,
                 tmp, pulled, pos, out, sockClosed, nCmd, cmdEnd, nDec>>

\* fmtStats evaluates countCurConns() and formats; doStats sets the reply.
ArgConns(c) ==
  /\ ~crashed
  /\ pc[c] = "argConns"
  /\ LET a == Append(args[c], curConnCount)
         r == replyLine(connStateSendJob, FmtOK(SprintfStats(a)))
     IN  /\ args' = [args EXCEPT ![c] = a]
         /\ snap' = [d \in DOMAIN snap |->
                       IF d = c THEN {t \in snap[d] : t[NRead(c) + 1] = curConnCount}
                                ELSE snap[d]]
         /\ reply' = [reply EXCEPT ![c] = r.reply]
         /\ state' = [state EXCEPT ![c] = r.state]
  /\ pc' = [pc EXCEPT ![c] = "connData"]
  /\ UNCHANGED <<sharedVars, accVars, clientVars, cmd, inJob, nbRead, tmp, pulled,
                 pos, out, sockClosed, nCmd, cmdEnd, nDec>>

\* connData in SendWord or SendJob: the write succeeds.
Write(c) ==
  /\ ~crashed
  /\ pc[c] = "connData"
  /\ state[c] \in {connStateSendWord, connStateSendJob}
  /\ out' = [out EXCEPT ![c] = Append(@, reply[c])]
  /\ state' = [state EXCEPT ![c] = resetConn]
  /\ UNCHANGED <<sharedVars, accVars, clientVars, pc, cmd, reply, inJob, nbRead, tmp,
                 args, pulled, pos, sockClosed, nCmd, cmdEnd, nDec, snap>>

\* connData in SendWord or SendJob: the write fails (the peer is gone).
WriteErr(c) ==
  /\ ~crashed
  /\ pc[c] = "connData"
  /\ state[c] \in {connStateSendWord, connStateSendJob}
  /\ peerClosed[c]
  /\ state' = [state EXCEPT ![c] = ioErrState]
  /\ UNCHANGED <<sharedVars, accVars, clientVars, pc, cmd, reply, inJob, nbRead, tmp,
                 args, pulled, pos, out, sockClosed, nCmd, cmdEnd, nDec, snap>>

\* handleConn sees Close; connClose closes the socket and loads curConnCount.
ConnClose(c) ==
  /\ ~crashed
  /\ pc[c] = "connData"
  /\ state[c] = connStateClose
  /\ sockClosed' = [sockClosed EXCEPT ![c] = @ + 1]
  /\ tmp' = [tmp EXCEPT ![c] = curConnCount]
  /\ pc' = [pc EXCEPT ![c] = "closeStore"]
  /\ UNCHANGED <<sharedVars, accVars, clientVars, state, cmd, reply, inJob, nbRead,
                 args, pulled, pos, out, nCmd, cmdEnd, nDec, snap>>

\* connClose stores curConnCount = curConnCount - 1; handleConn returns.
CloseStore(c) ==
  /\ ~crashed
  /\ pc[c] = "closeStore"
  /\ curConnCount' = tmp[c] - 1
  /\ snap' = Observe(Counters(opCount, tmp[c] - 1))
  /\ tmp' = [tmp EXCEPT ![c] = 0]
  /\ nDec' = [nDec EXCEPT ![c] = @ + 1]
  /\ pc' = [pc EXCEPT ![c] = afterClose]
  /\ UNCHANGED <<opCount, totalJobsCount, crashed, incDone, accVars, clientVars, state,
                 cmd, reply, inJob, nbRead, args, pulled, pos, out, sockClosed, nCmd,
                 cmdEnd>>

\* Two goroutines are inside opCount at once, one of them writing: the Go
\* runtime may detect it and end the process.
Crash ==
  /\ ~crashed
  /\ \E c, d \in Conns :
       /\ c # d
       /\ pc[c] = "opStore"
       /\ pc[d] \in {"opStore", "argPut", "argUse", "argStats"}
  /\ crashed' = TRUE
  /\ UNCHANGED <<opCount, curConnCount, totalJobsCount, incDone, accVars, clientVars,
                 connVars>>

Next ==
  \/ Accept
  \/ MakeConn
  \/ \E c \in Conns : ClientSend(c)
  \/ \E c \in Conns : ClientClose(c)
  \/ \E c \in Conns : ReadErr(c)
  \/ \E c \in Conns : ReadCmd(c)
  \/ \E c \in Conns : OpStore(c)
  \/ \E c \in Conns : ReadBody(c)
  \/ \E c \in Conns : JobStore(c)
  \/ \E c \in Conns : ArgRead(c)
  \/ \E c \in Conns : ArgConns(c)
  \/ \E c \in Conns : Write(c)
  \/ \E c \in Conns : WriteErr(c)
  \/ \E c \in Conns : ConnClose(c)
  \/ \E c \in Conns : CloseStore(c)
  \/ Crash

Spec == Init /\ [][Next]_vars

\* The steps of the handler goroutine of c.  A write returns, with or without
\* an error.
Handler(c) ==
  \/ ReadErr(c)
  \/ ReadCmd(c)
  \/ OpStore(c)
  \/ ReadBody(c)
  \/ JobStore(c)
  \/ ArgRead(c)
  \/ ArgConns(c)
  \/ Write(c)
  \/ WriteErr(c)
  \/ ConnClose(c)
  \/ CloseStore(c)

\* The program under a fair scheduler: a handler that can take a step (it is
\* runnable, or its pending read or write can return) eventually takes one.
SpecFair == Spec /\ \A c \in Conns : WF_vars(Handler(c))

\* The same program, with the history snap kept for every connection.
InitSnapshot == InitWith(Conns)

SpecSnapshot == InitSnapshot /\ [][Next]_vars

(***************************************************************************)
(* Notions the properties share.                                           *)
(***************************************************************************)
\* A reply is pending on c.
ReplyPending(c) ==
  pc[c] = "connData" /\ state[c] \in {connStateSendWord, connStateSendJob}

\* This step reads a command line from c and hands it to doCmd.
Dispatches(c) == nCmd'[c] # nCmd[c]

\* This step writes the pending reply of c to its socket.
Writes(c) == out'[c] # out[c]

\* Commands of c that have been read and whose reply has not been written.
Unanswered(c) == nCmd[c] - Len(out[c])

\* A put line with a missing, an extra or a non-integer field.
BadPut(line) ==
  /\ whichCmd(line) = opPut
  /\ LET f == Fields(line)
     IN  \/ Len(f) < 5
         \/ Len(f) > 5
         \/ \E i \in 2..Len(f) : ~ParseUintOK(f[i])

\* The replies that report a protocol error.
ErrorReplies == {msgBadFmt, msgExpectedCRLF, msgUnknownCommand}

(***************************************************************************)
(* C1.  Within one connection request and reply alternate: a command line  *)
(* is read only in WantCommand and only when every command read before it  *)
(* has had its reply written, and at most one command is unanswered.       *)
(***************************************************************************)
C1_Alternation ==
  [][\A c \in Conns :
       /\ Unanswered(c)' \in {0, 1}
       /\ Dispatches(c) =>
            /\ Unanswered(c) = 0
            /\ pc[c] = "connData"
            /\ state[c] = connStateWantCommand
            /\ nCmd'[c] = nCmd[c] + 1]_vars

\* Two commands have been read on a connection and both answered.
C1_Witness == \E c \in Conns : nCmd[c] = 2 /\ Len(out[c]) = 2

(***************************************************************************)
(* C2.  After a put whose fields parse, with declared body size B, exactly *)
(* B+2 bytes have been consumed as body, and the reply is INSERTED <id> if *)
(* and only if the last two of those B+2 bytes of the stream are CR LF.    *)
(***************************************************************************)
C2_BodyExact ==
  \A c \in Conns :
    (ReplyPending(c) /\ whichCmd(cmd[c]) = opPut /\ PutParses(cmd[c])) =>
      LET B == PutField(cmd[c], 5)
      IN  /\ nbRead[c] = B + 2
          /\ pos[c] = cmdEnd[c] + B + 2
          /\ HasPrefix(reply[c], msgInsertedFmt)
               <=> SubSeq(Input(script[c]), cmdEnd[c] + B + 1, cmdEnd[c] + B + 2) = CRLF

C4_CountExact ==
  (accPc = "accept" /\ \A c \in Conns : pc[c] # "closeStore") =>
    curConnCount = Cardinality({c \in Conns : pc[c] \notin {"idle", "done"}})

(***************************************************************************)
(* C5.  No counter update is lost: whenever a stats command reads cmd-put, *)
(* cmd-use or cmd-stats for its report, the counter equals the number of   *)
(* increments of it that have completed.                                   *)
(***************************************************************************)
C5_StatsExact ==
  \A c \in Conns :
    pc[c] \in {"argPut", "argUse", "argStats"} =>
      opCount[ArgOp(pc[c])] = incDone[ArgOp(pc[c])]

(***************************************************************************)
(* C6.  A connection in Close has its socket closed once and the counter   *)
(* decrement executed once, and then the handler has returned; in Close    *)
(* nothing is read or written and the state does not change.               *)
(***************************************************************************)
C6_CloseOnce ==
  [][\A c \in Conns :
       /\ sockClosed'[c] <= 1
       /\ nDec'[c] <= 1
       /\ sockClosed'[c] # sockClosed[c] => state[c] = connStateClose
       /\ nDec'[c] # nDec[c] => sockClosed[c] = 1
       /\ pc'[c] = "done" => sockClosed'[c] = 1 /\ nDec'[c] = 1
       /\ state[c] = connStateClose =>
            /\ state'[c] = connStateClose
            /\ out'[c] = out[c]
            /\ pos'[c] = pos[c]
            /\ pulled'[c] = pulled[c]
            /\ nCmd'[c] = nCmd[c]
       /\ pc[c] = "done" =>
            /\ pc'[c] = "done"
            /\ sockClosed'[c] = sockClosed[c]
            /\ nDec'[c] = nDec[c]]_vars

\* A handler has returned after answering a command: one close, one decrement.
C6_Witness ==
  \E c \in Conns :
    pc[c] = "done" /\ sockClosed[c] = 1 /\ nDec[c] = 1 /\ Len(out[c]) >= 1

(***************************************************************************)
(* C7.  A protocol error does not close the connection: a command answered *)
(* BAD_FORMAT, EXPECTED_CRLF or UNKNOWN_COMMAND leaves it in SendWord, and *)
(* when that reply is written the connection is in WantCommand; it goes to *)
(* Close from there only by a failed write.                                *)
(***************************************************************************)
C7_ErrorKeepsOpen ==
  [][\A c \in Conns :
       /\ (Dispatches(c) /\ (BadPut(cmd'[c]) \/ whichCmd(cmd'[c]) = opUnknown)) =>
            /\ reply'[c] \in ErrorReplies
            /\ state'[c] = connStateSendWord
       /\ (reply'[c] # reply[c] /\ reply'[c] \in ErrorReplies) =>
            state'[c] = connStateSendWord
       /\ (ReplyPending(c) /\ reply[c] \in ErrorReplies /\ Writes(c)) =>
            /\ state'[c] = connStateWantCommand
            /\ pc'[c] = "connData"
       /\ (ReplyPending(c) /\ reply[c] \in ErrorReplies /\ state'[c] = connStateClose) =>
            /\ ~Writes(c)
            /\ peerClosed[c]]_vars

\* After EXPECTED_CRLF was written the connection has read its next command.
C7_Witness ==
  \E c \in Conns : nCmd[c] = 2 /\ Len(out[c]) >= 1 /\ out[c][1] = msgExpectedCRLF

(***************************************************************************)
(* C8.  A quit line takes the connection from WantCommand to Close with no *)
(* reply set, and nothing is written to the socket from there on.          *)
(***************************************************************************)
C8_QuitSilent ==
  [][\A c \in Conns :
       /\ (Dispatches(c) /\ whichCmd(cmd'[c]) = opQuit) =>
            /\ state[c] = connStateWantCommand
            /\ state'[c] = connStateClose
            /\ reply'[c] = reply[c]
            /\ out'[c] = out[c]
       /\ (state[c] = connStateClose /\ whichCmd(cmd[c]) = opQuit) =>
            /\ out'[c] = out[c]
            /\ reply'[c] = reply[c]]_vars

\* A connection whose only command was quit has been closed with nothing written.
C8_Witness ==
  \E c \in Conns :
    /\ whichCmd(cmd[c]) = opQuit
    /\ nCmd[c] = 1
    /\ sockClosed[c] = 1
    /\ out[c] = <<>>

(***************************************************************************)
(* C9.  The reply to a line `use <name>` CR LF is `USING <name>` CR LF,    *)
(* the name being the text between the keyword's space and the CR LF.      *)
(***************************************************************************)
C9_UsingReply ==
  \A c \in Conns :
    (ReplyPending(c) /\ whichCmd(cmd[c]) = opUse /\ HasSuffix(cmd[c], CRLF)) =>
      /\ state[c] = connStateSendWord
      /\ reply[c] = "USING " \o SubSeq(cmd[c], cmdUseLen + 1, Len(cmd[c]) - 2) \o CRLF

(***************************************************************************)
(* C10.  A stats command leaves the connection in SendJob with the reply   *)
(* `OK <n>` CR LF, the report, CR LF, where n is the length of the report  *)
(* and the report lists the nine fields in their fixed order.              *)
(***************************************************************************)
C10_StatsReply ==
  \A c \in Conns :
    (ReplyPending(c) /\ whichCmd(cmd[c]) = opStats) =>
      /\ state[c] = connStateSendJob
      /\ LET report == SprintfStats(args[c])
         IN  reply[c] = "OK " \o FmtD(Len(report)) \o CRLF \o report \o CRLF

(***************************************************************************)
(* C11.  No step lowers a per-command counter (cmd-put, cmd-use, cmd-stats) *)
(* or the total-jobs counter: each never takes a value lower than one it   *)
(* held earlier.                                                           *)
(***************************************************************************)
C11_Monotone ==
  [][/\ \A op \in CountedOps : opCount'[op] >= opCount[op]
     /\ totalJobsCount' >= totalJobsCount]_vars

(***************************************************************************)
(* C12.  cmd-put is incremented only by a successful submission: whenever  *)
(* no handler is in the middle of a put, the increments of cmd-put that    *)
(* have been executed are as many as the puts answered INSERTED; a put     *)
(* answered BAD_FORMAT or EXPECTED_CRLF has executed none.                 *)
(***************************************************************************)
\* The handler of c is inside doCmd's put case, past the parsing of the line.
MidPut(c) ==
  \/ pc[c] \in {"readBody", "jobStore"}
  \/ pc[c] = "opStore" /\ whichCmd(cmd[c]) = opPut

\* The last command of c was a put, it has been handled, its reply is INSERTED
\* and that reply has not been written.
InsertedPending(c) ==
  /\ Unanswered(c) = 1
  /\ ~MidPut(c)
  /\ whichCmd(cmd[c]) = opPut
  /\ HasPrefix(reply[c], msgInsertedFmt)

\* The puts of c that have been answered INSERTED.
InsertedBy(c) ==
  Cardinality({i \in 1..Len(out[c]) : HasPrefix(out[c][i], msgInsertedFmt)})
    + (IF InsertedPending(c) THEN 1 ELSE 0)

RECURSIVE InsertedUpTo(_)
InsertedUpTo(n) == IF n = 0 THEN 0 ELSE InsertedBy(n) + InsertedUpTo(n - 1)

C12_PutCounted ==
  (\A c \in Conns : ~MidPut(c)) => incDone[opPut] = InsertedUpTo(MaxConns)

(***************************************************************************)
(* C13.  A failed read of a command line (error or end of stream) and a    *)
(* failed write of a reply take the connection to Close; the step writes   *)
(* nothing to its peer, nothing is written once it is in Close, and the    *)
(* step leaves the state, the pending reply and the input position of      *)
(* every other connection as they were.                                    *)
(***************************************************************************)
\* The read of a command line on c can only fail: the peer has closed and no
\* complete line is left.
ReadMustFail(c) ==
  /\ pc[c] = "connData"
  /\ state[c] = connStateWantCommand
  /\ peerClosed[c]
  /\ ~HasLF(c, Arrived(c))

\* This step is a failed read of a command line on c.
ReadFails(c) == ReadMustFail(c) /\ <<state[c], pos[c], pulled[c]>>' # <<state[c], pos[c], pulled[c]>>

\* This step is a failed write of the pending reply of c.
WriteFails(c) == ReplyPending(c) /\ ~Writes(c) /\ state'[c] # state[c]

C13_IOFailure ==
  [][\A c \in Conns :
       /\ (ReadFails(c) \/ WriteFails(c)) =>
            /\ state'[c] = connStateClose
            /\ out'[c] = out[c]
            /\ \A d \in Conns \ {c} :
                 /\ state'[d] = state[d]
                 /\ reply'[d] = reply[d]
                 /\ pos'[d] = pos[d]
                 /\ pulled'[d] = pulled[d]
                 /\ pc'[d] = pc[d]
       /\ state[c] = connStateClose => out'[c] = out[c]]_vars

\* A connection was closed by a failed read or write while another one has a
\* reply pending, which is then still written.
C13_Witness ==
  \E c, d \in Conns :
    /\ c # d
    /\ state[c] = connStateClose
    /\ whichCmd(cmd[c]) # opQuit
    /\ nDec[c] = 1
    /\ state[d] = connStateWantCommand
    /\ Len(out[d]) = 1

(***************************************************************************)
(* C14.  A command line is classified as put, stats, use or quit only when *)
(* its leading token is that keyword; a line with any other leading token, *)
(* such as statsX or quitter, is answered UNKNOWN_COMMAND and the          *)
(* connection stays open.                                                  *)
(***************************************************************************)
\* The first white-space-delimited token of a line.
LeadToken(line) == IF Fields(line) = <<>> THEN "" ELSE Fields(line)[1]

\* The keyword of each command.
Keyword == [op \in {opPut, opStats, opUse, opQuit} |->
              IF op = opPut THEN "put"
              ELSE IF op = opStats THEN "stats"
              ELSE IF op = opUse THEN "use"
              ELSE "quit"]

C14_LeadingToken ==
  [][\A c \in Conns :
       Dispatches(c) =>
         LET line == cmd'[c]
             tok == LeadToken(line)
         IN  /\ whichCmd(line) # opUnknown => tok = Keyword[whichCmd(line)]
             /\ (\A op \in DOMAIN Keyword : tok # Keyword[op]) =>
                  /\ reply'[c] = msgUnknownCommand
                  /\ state'[c] = connStateSendWord
                  /\ pc'[c] = "connData"]_vars

(***************************************************************************)
(* C15.  The report of a stats command is one consistent snapshot: the     *)
(* values it shows for cmd-put, cmd-use, cmd-stats and current-connections *)
(* are the values the four counters held together at some one instant      *)
(* between the stats line being handed to doCmd and the reply being set.   *)
(***************************************************************************)
\* The four counter values in the report of the stats command c has handled.
Reported(c) == <<args[c][6], args[c][7], args[c][8], args[c][9]>>

C15_Snapshot ==
  \A c \in Conns :
    (ReplyPending(c) /\ whichCmd(cmd[c]) = opStats) => Reported(c) \in snap[c]

(***************************************************************************)
(* C16.  Under a fair scheduler, a connection with a reply pending         *)
(* eventually is back in WantCommand or in Close, and a connection whose   *)
(* peer has disconnected eventually is in Close with its handler returned. *)
(***************************************************************************)
C16_Progress ==
  \A c \in Conns :
    /\ ReplyPending(c) ~> (state[c] \in {connStateWantCommand, connStateClose})
    /\ (Live(c) /\ peerClosed[c]) ~> (state[c] = connStateClose /\ pc[c] = "done")

(***************************************************************************)
(* C17.  The job made for a put whose fields parse has the parsed          *)
(* time-to-run floored to a minimum of 1: the parsed value when that is at *)
(* least 1, and 1 when it is 0.                                            *)
(***************************************************************************)
C17_TtrFloor ==
  \A c \in Conns :
    pc[c] = "readBody" =>
      LET ttr == PutField(cmd[c], 4)
      IN  inJob[c].ttr = (IF ttr >= 1 THEN ttr ELSE 1)

(***************************************************************************)
(* C18.  Every command line handed to doCmd yields exactly one outcome.    *)
(* When doCmd returns, the connection is in Close, with no reply set and   *)
(* nothing written from then on, or in SendWord or SendJob with a          *)
(* non-empty reply that is a reply to that command; it is never still in   *)
(* WantCommand.  A write sends the reply of the one unanswered command.    *)
(***************************************************************************)
\* This step is the return of doCmd on c.
DoCmdReturns(c) ==
  /\ pc'[c] = "connData"
  /\ \/ Dispatches(c)
     \/ pc[c] \in {"opStore", "readBody", "jobStore", "argConns"}

\* r is a reply doCmd gives to the command line.
ReplyFor(line, r) ==
  LET op == whichCmd(line)
  IN  \/ op = opPut /\ r \in {msgBadFmt, msgExpectedCRLF, FmtInserted(jobId)}
      \/ op = opStats /\ HasPrefix(r, "OK ")
      \/ op = opUse /\ HasPrefix(r, "USING ")
      \/ op = opUnknown /\ r = msgUnknownCommand

C18_OneOutcome ==
  [][\A c \in Conns :
       /\ DoCmdReturns(c) =>
            /\ state'[c] # connStateWantCommand
            /\ state'[c] = connStateClose =>
                 /\ whichCmd(cmd'[c]) = opQuit
                 /\ reply'[c] = reply[c]
                 /\ out'[c] = out[c]
            /\ state'[c] \in {connStateSendWord, connStateSendJob} =>
                 /\ reply'[c] # ""
                 /\ ReplyFor(cmd'[c], reply'[c])
       /\ Writes(c) =>
            /\ Unanswered(c) = 1
            /\ out'[c] = Append(out[c], reply[c])
            /\ ReplyFor(cmd[c], reply[c])
            /\ state'[c] = connStateWantCommand]_vars

\* Two commands of one connection have each been answered with their own reply.
C18_Witness ==
  \E c \in Conns :
    /\ nCmd[c] = 2
    /\ Len(out[c]) = 2
    /\ out[c][1] = FmtInserted(jobId)
    /\ HasPrefix(out[c][2], "USING ")

(***************************************************************************)
(* C19.  The current-connection counter is never negative.                 *)
(***************************************************************************)
C19_NonNegative == curConnCount >= 0

(***************************************************************************)
(* C20.  The in-progress job of a connection is held only while a body is  *)
(* being read: whenever the connection is in WantCommand, SendWord or      *)
(* SendJob and its handler is not inside doCmd, also after a put answered  *)
(* INSERTED, EXPECTED_CRLF or BAD_FORMAT for a short read, its in-progress *)
(* job reference is empty.                                                 *)
(***************************************************************************)
C20_InJobEmpty ==
  \A c \in Conns :
    (/\ pc[c] = "connData"
     /\ state[c] \in {connStateWantCommand, connStateSendWord, connStateSendJob})
      => inJob[c] = nil

====
